---- MODULE Spec2Model ----
(***************************************************************************)
(* mdssprep: batching the small files of a directory into tar archives,    *)
(* verifying every archive against the md5 tags of its members and         *)
(* deleting the originals (src/mdssprep/mdssprep.py).                      *)
(*                                                                         *)
(* Sizes are natural numbers in an abstract unit. A name is a tuple of     *)
(* one-character strings, a path is a sequence of names, a glob pattern    *)
(* is a tuple of one-character strings.                                    *)
(***************************************************************************)
EXTENDS Integers, Sequences, FiniteSets, TLC

VARIABLES
    policy,     \* the module-global default policy dict
    dryrun,     \* the dryrun argument of archive()
    self,       \* the Directory object whose archive() is running
    loc,        \* locals of gatherfiles: tarfiles, store, totsize
    tarf,       \* frame of tar(): files, storemask, filename, pending exception
    todo,       \* stack of the "for path in self.subdirs" loops of the active archive() calls
    pc,         \* position in the code
    listing,    \* directory entries enumerated so far (scan-time snapshot)
    present,    \* paths of the source files that exist on disk
    archives,   \* archive files on disk: filename -> content
    unlinked,   \* paths os.unlink was called on successfully by tar()
    verdicts,   \* <<filename, result>> of every verify() call tar() made in this run
    check,      \* the last standalone verify() call: the archive read and the result
    out,        \* what was printed: reports and warnings
    rerun,      \* which run on the tree this is, the entries a later run has still
                \* to enumerate, and the disk as the later run found it
    hist        \* history: the constructor call that made self (its keyword
                \* arguments, the defaults at the time of the call) in a session
                \* that builds Directory objects one by one; empty during archive()

vars == <<policy, dryrun, self, loc, tarf, todo, pc, listing, present,
          archives, unlinked, verdicts, check, out, rerun, hist>>

----------------------------------------------------------------------------
(* Bounds of the model *)

\* directory entries enumerated in one run, over all directories
MaxEntries == 3
\* largest file size
MaxSize == 2
\* deepest nesting of subdirectories below the root
MaxDepth == 1
\* members of an archive handed to verify on its own
MaxMembers == 2

None == "None"

RootPath == << <<"r">> >>

\* the name of the i-th entry enumerated: a, ab, aa, aab, ...
NameOf(i) ==
    [j \in 1..((i + 1) \div 2) |-> "a"] \o (IF i % 2 = 0 THEN <<"b">> ELSE <<>>)

Sizes == 0..MaxSize

\* pattern lists offered as include / exclude
PatternLists ==
    { <<>>, << <<"*">> >>, << <<"a", "?">>, <<"?">> >> }

\* values the policy can hold for the size thresholds
MinFileSizes == {1, MaxSize}
MaxArchiveSizes == {1, MaxSize + 1}
Compressions == {None, "gz"}

----------------------------------------------------------------------------
(* Pure helpers *)

RECURSIVE SumSeq(_)
SumSeq(s) == IF s = <<>> THEN 0 ELSE Head(s) + SumSeq(Tail(s))

\* itertools.compress(files, storemask)
RECURSIVE compress(_, _)
compress(files, mask) ==
    IF files = <<>> \/ mask = <<>> THEN <<>>
    ELSE (IF Head(mask) THEN <<Head(files)>> ELSE <<>>)
         \o compress(Tail(files), Tail(mask))

\* PurePath.match for a one-component pattern: shell glob on the name
RECURSIVE Glob(_, _)
Glob(p, s) ==
    IF p = <<>> THEN s = <<>>
    ELSE IF Head(p) = "*"
         THEN Glob(Tail(p), s) \/ (s # <<>> /\ Glob(p, Tail(s)))
    ELSE IF Head(p) = "?"
         THEN s # <<>> /\ Glob(Tail(p), Tail(s))
    ELSE s # <<>> /\ Head(s) = Head(p) /\ Glob(Tail(p), Tail(s))

\* the bytes of a file of the given size: all 0 as first written, all 1 once
\* another process has rewritten it in place
Bytes(size, version) == [i \in 1..size |-> version]

\* md5stream(handle).hexdigest(): a digest of the bytes, chunk by chunk
RECURSIVE md5stream(_)
md5stream(bytes) ==
    IF bytes = <<>> THEN 1
    ELSE 3 * md5stream(SubSeq(bytes, 1, Len(bytes) - 1)) + bytes[Len(bytes)] + 1

----------------------------------------------------------------------------
(* The policy and the Directory object *)

PolicyKeys == {"compress", "minfilesize", "maxarchivesize"}

\* states of the module-global policy dict (its literal, then set_policy calls)
Policies ==
    { [k \in PolicyKeys |->
         CASE k = "compress" -> c
           [] k = "minfilesize" -> mn
           [] k = "maxarchivesize" -> mx] :
      c \in Compressions, mn \in MinFileSizes, mx \in MaxArchiveSizes }

\* keyword arguments passed to the constructor of the first Directory
KwargsChoices ==
    { <<>> }
    \cup { [k \in {"include", "exclude"} |-> IF k = "include" THEN i ELSE e] :
           i \in PatternLists, e \in PatternLists }
    \cup { [k \in {"minfilesize"} |-> mn] : mn \in MinFileSizes }
    \cup { [k \in {"compress"} |-> c] : c \in Compressions }

\* Merge with the defaults taking precedence over the keyword arguments
MergePolicyWins(pol, kwargs) ==
    [k \in (DOMAIN pol) \cup (DOMAIN kwargs) |->
        IF k \in DOMAIN pol THEN pol[k] ELSE kwargs[k]]

\* {**policy, **kwargs}
Merge(pol, kwargs) ==
    [k \in (DOMAIN pol) \cup (DOMAIN kwargs) |->
        IF k \in DOMAIN kwargs THEN kwargs[k] ELSE pol[k]]

\* the attribute a key ends up as, given the value set before the setattr loop
Attr(merged, key, before) ==
    IF key \in DOMAIN merged THEN merged[key] ELSE before

\* Directory.__init__
NewDirectory(path, kwargs, pol) ==
    LET merged == Merge(pol, kwargs)
        comp == merged["compress"]
    IN [ path |-> path,
         include |-> Attr(merged, "include", <<>>),
         exclude |-> Attr(merged, "exclude", <<>>),
         compress |-> comp,
         minfilesize |-> merged["minfilesize"],
         maxarchivesize |-> merged["maxarchivesize"],
         tarfiles |-> <<>>,
         subdirs |-> <<>>,
         totalfiles |-> 0,
         untarsize |-> 0,
         tottarsize |-> 0,
         tarsize |-> 0,
         narchive |-> 0,
         mode |-> IF comp # None THEN <<"w", comp>> ELSE <<"w">> ]

NoLocals == [tarfiles |-> <<>>, store |-> <<>>, totsize |-> 0]

NoFile == [dir |-> <<>>, hash |-> 0, seq |-> 0, suffix |-> <<>>]

\* rw: the stored file (by index, 0 for none) that another process rewrote
\* while the archive was being built
NoTar == [files |-> <<>>, storemask |-> <<>>, filename |-> NoFile,
          exc |-> None, ret |-> None, rw |-> 0]

NoArchive == [name |-> NoFile, members |-> <<>>, state |-> "absent"]

NoCheck == [archive |-> NoArchive, result |-> None, first |-> 0]

\* the first run on a tree: nothing is there from an earlier run
FirstRun == [n |-> 1, queue |-> <<>>, archives |-> {}, present |-> {},
             files |-> {}, minfilesize |-> 0]

Init ==
    /\ policy \in Policies
    /\ dryrun \in BOOLEAN
    /\ \E kwargs \in KwargsChoices : self = NewDirectory(RootPath, kwargs, policy)
    /\ hist = <<>>
    /\ rerun = FirstRun
    /\ loc = NoLocals
    /\ tarf = NoTar
    /\ todo = <<>>
    /\ pc = "gather"
    /\ listing = <<>>
    /\ present = {}
    /\ archives = {}
    /\ unlinked = {}
    /\ verdicts = {}
    /\ check = NoCheck
    /\ out = <<>>

----------------------------------------------------------------------------
(* gatherfiles *)

Depth(path) == Len(path) - 1

\* Path.name: the last component
Basename(path) == path[Len(path)]

\* size recorded for a path when it was enumerated
SizeOf(path) ==
    LET e == CHOOSE x \in {listing[i] : i \in 1..Len(listing)} : x.path = path
    IN e.size

\* the two filter loops: some pattern of the list matches the child's name
MatchAny(patterns, name) ==
    \E i \in 1..Len(patterns) : Glob(patterns[i], name)

\* StoreDecision with exclude taking precedence over include
StoreDecisionExcludeWins(d, name, size) ==
    LET include == MatchAny(d.include, name)
        exclude == MatchAny(d.exclude, name)
    IN (size < d.minfilesize \/ include) /\ ~exclude

\* the store decision of gatherfiles for a file of this name and size
StoreDecision(d, name, size) ==
    LET include == MatchAny(d.include, name)
        exclude == MatchAny(d.exclude, name)
    IN (size < d.minfilesize /\ ~exclude) \/ include

\* Account without the else branch that adds to untarsize
AccountSkipsLeftAlone(d, size, stored) ==
    IF stored
    THEN [d EXCEPT !.totalfiles = @ + 1, !.tottarsize = @ + size, !.tarsize = @ + size]
    ELSE [d EXCEPT !.totalfiles = @ + 1]

\* the counters of the Directory after one more file of this size
Account(d, size, stored) ==
    IF stored
    THEN [d EXCEPT !.totalfiles = @ + 1, !.tottarsize = @ + size, !.tarsize = @ + size]
    ELSE [d EXCEPT !.totalfiles = @ + 1, !.untarsize = @ + size]

\* the call self.tar(files, storemask, dryrun), returning to ret
CallTar(files, storemask, ret) ==
    /\ tarf' = [NoTar EXCEPT !.files = files, !.storemask = storemask, !.ret = ret]
    /\ pc' = "tar"

\* a child that is a directory
GatherDir ==
    /\ pc = "gather"
    /\ rerun.n = 1
    /\ Len(listing) < MaxEntries
    /\ Depth(self.path) < MaxDepth
    /\ LET child == self.path \o <<NameOf(Len(listing) + 1)>>
       IN /\ listing' = Append(listing, [path |-> child, kind |-> "dir", size |-> 0])
          /\ self' = [self EXCEPT !.subdirs = Append(@, child)]
    /\ UNCHANGED <<policy, dryrun, rerun, loc, tarf, todo, pc, present, archives,
                   unlinked, verdicts, check, out, hist>>

\* the body of the loop for a child that is a regular file of this size
ScanFile(child, size) ==
    LET tarfiles == Append(loc.tarfiles, child)
    IN IF StoreDecision(self, Basename(child), size)
       THEN LET totsize == loc.totsize + size
                store == Append(loc.store, TRUE)
            IN /\ self' = Account(self, size, TRUE)
               /\ IF totsize > self.maxarchivesize
                  THEN /\ CallTar(tarfiles, store, "gather")
                       /\ loc' = NoLocals
                  ELSE /\ loc' = [tarfiles |-> tarfiles, store |-> store,
                                  totsize |-> totsize]
                       /\ UNCHANGED <<tarf, pc>>
       ELSE /\ self' = Account(self, size, FALSE)
            /\ loc' = [loc EXCEPT !.tarfiles = tarfiles,
                                  !.store = Append(@, FALSE)]
            /\ UNCHANGED <<tarf, pc>>

\* a child that is a regular file
GatherFile ==
    /\ pc = "gather"
    /\ rerun.n = 1
    /\ Len(listing) < MaxEntries
    /\ \E size \in Sizes :
         LET child == self.path \o <<NameOf(Len(listing) + 1)>>
         IN /\ listing' = Append(listing, [path |-> child, kind |-> "file", size |-> size])
            /\ present' = present \cup {child}
            /\ ScanFile(child, size)
    /\ UNCHANGED <<policy, dryrun, rerun, todo, archives, unlinked, verdicts, check, out,
                   hist>>

\* the end of the loop: the last call of tar
GatherEnd ==
    /\ pc = "gather"
    /\ rerun.queue = <<>>
    /\ CallTar(loc.tarfiles, loc.store, "report")
    /\ loc' = NoLocals
    /\ UNCHANGED <<policy, dryrun, rerun, self, todo, listing, present, archives,
                   unlinked, verdicts, check, out, hist>>

----------------------------------------------------------------------------
(* tar, addmeta and verify *)

\* str(path): the names joined by "/"
RECURSIVE Str(_)
Str(path) ==
    IF path = <<>> THEN <<>>
    ELSE IF Len(path) = 1 THEN Head(path)
    ELSE Head(path) \o <<"/">> \o Str(Tail(path))

Code(c) == CASE c = "a" -> 1 [] c = "b" -> 2 [] c = "r" -> 3 [] OTHER -> 4

\* blake2b(...).hexdigest(): a digest of the characters
RECURSIVE blake2b(_)
blake2b(chars) ==
    IF chars = <<>> THEN 0
    ELSE 5 * blake2b(SubSeq(chars, 1, Len(chars) - 1)) + Code(chars[Len(chars)])

\* Directory.hashpath
hashpath(d) == blake2b(Str(d.path))

\* the characters of a compress value
Chars(c) == IF c = "gz" THEN <<"g", "z">> ELSE <<>>

\* sep.join(parts)
RECURSIVE Join(_, _)
Join(sep, parts) ==
    IF parts = <<>> THEN <<>>
    ELSE IF Len(parts) = 1 THEN Head(parts)
    ELSE Head(parts) \o sep \o Join(sep, Tail(parts))

\* the archive's path as tar() computes it, narchive being already incremented:
\* the directory, and the parts of the name 'archive_{}_{:03d}.tar', joined
\* with the compress value by ":" when there is one
FileName(d, narchive) ==
    [ dir |-> d.path,
      hash |-> hashpath(d),
      seq |-> narchive,
      suffix |-> IF d.compress # None
                 THEN Join(<<":">>, << <<".", "t", "a", "r">>, Chars(d.compress) >>)
                 ELSE <<".", "t", "a", "r">> ]

HexDigits == <<"0", "1", "2", "3", "4", "5", "6", "7", "8", "9",
               "a", "b", "c", "d", "e", "f">>

\* the last width digits of n in the base, most significant first
RECURSIVE Digits(_, _, _)
Digits(n, base, width) ==
    IF width = 0 THEN <<>>
    ELSE Append(Digits(n \div base, base, width - 1), HexDigits[(n % base) + 1])

\* '{:03d}'.format(n): at least three decimal digits, zero padded
Format03d(n) ==
    IF n < 1000 THEN Digits(n, 10, 3) ELSE Digits(n \div 1000, 10, 1) \o Digits(n, 10, 3)

\* the name of the archive file: the 12 hex digits of a 6-byte digest, the
\* sequence number and the suffix
ArchiveName(fn) ==
    <<"a", "r", "c", "h", "i", "v", "e", "_">> \o Digits(fn.hash, 16, 12)
    \o <<"_">> \o Format03d(fn.seq) \o fn.suffix

\* Member with the tag taken from a handle already at its end
MemberStaleTag(path, rewritten) ==
    [ name |-> path[Len(path)],
      md5 |-> md5stream(<<>>),
      bytes |-> Bytes(SizeOf(path), IF rewritten THEN 1 ELSE 0) ]

\* addmeta followed by the copy of archive.add: the tag is the md5 of the file
\* as md5path read it, the member holds the bytes the copy read afterwards
Member(path, rewritten) ==
    [ name |-> path[Len(path)],
      md5 |-> md5stream(Bytes(SizeOf(path), 0)),
      bytes |-> Bytes(SizeOf(path), IF rewritten THEN 1 ELSE 0) ]

\* FirstMismatch looking at the last member only
FirstMismatchLastOnly(members, i) ==
    IF members # <<>>
       /\ md5stream(members[Len(members)].bytes) # members[Len(members)].md5
    THEN Len(members) ELSE 0

\* index of the first member whose recomputed md5 differs from its tag, 0 if none
RECURSIVE FirstMismatch(_, _)
FirstMismatch(members, i) ==
    IF i > Len(members) THEN 0
    ELSE IF md5stream(members[i].bytes) # members[i].md5 THEN i
    ELSE FirstMismatch(members, i + 1)

\* the archive file of that name on disk, as a set of zero or one elements
OnDisk(disk, filename) == {a \in disk : a.name = filename}

\* verify(filename): "raise" when tarfile cannot read the file (absent, zero
\* bytes, or ending inside a member), else "True" / "False"
verify(disk, filename) ==
    IF OnDisk(disk, filename) = {} THEN "raise"
    ELSE LET a == CHOOSE x \in OnDisk(disk, filename) : TRUE
         IN IF a.state = "truncated" THEN "raise"
            ELSE IF a.state = "open" /\ a.members = <<>> THEN "raise"
            ELSE IF FirstMismatch(a.members, 1) = 0 THEN "True" ELSE "False"

\* Stored without the mask: every file handed to tar()
StoredIgnoresMask == tarf.files

\* compress(files, storemask) of the running tar() call
Stored == compress(tarf.files, tarf.storemask)

\* if len(files) == 0: return
TarEmpty ==
    /\ pc = "tar"
    /\ Len(tarf.files) = 0
    /\ pc' = tarf.ret
    /\ tarf' = NoTar
    /\ UNCHANGED <<policy, dryrun, rerun, self, loc, todo, listing, present, archives,
                   unlinked, verdicts, check, out, hist>>

\* TarDry that unlinks the stored files as the real branch does
TarDryUnlinking ==
    /\ pc = "tar"
    /\ Len(tarf.files) # 0
    /\ dryrun
    /\ self' = [self EXCEPT !.narchive = @ + 1,
                            !.tarsize = @ + self.tottarsize,
                            !.tarfiles = @ \o compress(tarf.files, tarf.storemask)]
    /\ present' = present \ {tarf.files[i] : i \in {j \in 1..Len(tarf.files) : tarf.storemask[j]}}
    /\ pc' = tarf.ret
    /\ tarf' = NoTar
    /\ UNCHANGED <<policy, dryrun, rerun, loc, todo, listing, archives,
                   unlinked, verdicts, check, out, hist>>

\* the dry-run branch and the final extend
TarDry ==
    /\ pc = "tar"
    /\ Len(tarf.files) # 0
    /\ dryrun
    /\ self' = [self EXCEPT !.narchive = @ + 1,
                            !.tarsize = @ + self.tottarsize,
                            !.tarfiles = @ \o Stored]
    /\ pc' = tarf.ret
    /\ tarf' = NoTar
    /\ UNCHANGED <<policy, dryrun, rerun, loc, todo, listing, present, archives,
                   unlinked, verdicts, check, out, hist>>

\* the members of the first k - 1 stored files, the one at index rw (if any)
\* having been rewritten in place between its md5 and its copy
Written(stored, k, rw) ==
    [i \in 1..(k - 1) |-> Member(stored[i], i = rw)]

\* the try block: tarfile.open for writing and one archive.add per stored file.
\* fail = Len(stored) + 1 is the build that completes.
TarBuild ==
    /\ pc = "tar"
    /\ Len(tarf.files) # 0
    /\ ~dryrun
    /\ LET narchive == self.narchive + 1
           filename == FileName(self, narchive)
           stored == Stored
           n == Len(stored)
           others == {a \in archives : a.name # filename}
       IN /\ self' = [self EXCEPT !.narchive = narchive]
          /\ out' = Append(out, <<"Creating archive", filename>>)
          /\ \/ \* tarfile.open raises: the destination cannot be created
                /\ archives' = archives
                /\ tarf' = [tarf EXCEPT !.filename = filename, !.exc = "OSError"]
             \/ \E fail \in 1..(n + 1), rw \in 0..n, how \in {"unreadable", "short"} :
                  /\ rw < fail
                  /\ rw # 0 => SizeOf(stored[rw]) > 0
                  /\ fail = n + 1 => how = "unreadable"
                  /\ (fail <= n /\ how = "short") => SizeOf(stored[fail]) > 0
                  /\ archives' = others \cup
                       {[ name |-> filename,
                          members |-> Written(stored, fail, rw),
                          state |-> IF fail = n + 1 THEN "closed"
                                    ELSE IF how = "short" THEN "truncated"
                                    ELSE "open" ]}
                  /\ tarf' = [tarf EXCEPT !.filename = filename, !.rw = rw,
                                          !.exc = IF fail = n + 1 THEN None ELSE "OSError"]
    /\ pc' = "verify"
    /\ UNCHANGED <<policy, dryrun, rerun, loc, todo, listing, present, unlinked, verdicts, check, hist>>

\* AfterVerify with the unlink loop outside of the "if verify(filename)"
AfterVerifyUngated(r) ==
    IF r = "raise" THEN "raised" ELSE "unlink"

\* AfterVerify with the two branches of the if exchanged
AfterVerifyInverted(r) ==
    CASE r = "raise" -> "raised"
      [] r = "True" -> "warn"
      [] OTHER -> "unlink"

\* what follows the call of verify in the finally block
AfterVerify(r) ==
    CASE r = "raise" -> "raised"
      [] r = "True" -> "unlink"
      [] OTHER -> "warn"

\* finally: if verify(filename)
TarVerify ==
    /\ pc = "verify"
    /\ LET r == verify(archives, tarf.filename)
       IN /\ pc' = AfterVerify(r)
          /\ verdicts' = verdicts \cup {<<tarf.filename, r>>}
          /\ out' = IF r = "False"
                    THEN LET a == CHOOSE x \in OnDisk(archives, tarf.filename) : TRUE
                         IN Append(out, <<"mismatch", a.members[FirstMismatch(a.members, 1)].name>>)
                    ELSE out
          /\ tarf' = IF r = "raise" THEN [tarf EXCEPT !.exc = "ReadError"] ELSE tarf
    /\ UNCHANGED <<policy, dryrun, rerun, self, loc, todo, listing, present, archives, unlinked,
                   check, hist>>

\* the first k elements of a sequence of paths, as a set
Firsts(seq, k) == {seq[i] : i \in 1..k}

\* for path in compress(files, storemask): os.unlink(path), then the re-raise
\* of the exception pending from the try block, or the final extend and return.
\* The unlink of stored file number fail raises (fail = n + 1: none does).
TarUnlink ==
    /\ pc = "unlink"
    /\ LET stored == Stored
           n == Len(stored)
       IN \E fail \in 1..(n + 1) :
            /\ present' = present \ Firsts(stored, fail - 1)
            /\ unlinked' = unlinked \cup
                 {[path |-> q, archive |-> tarf.filename] : q \in Firsts(stored, fail - 1)}
            /\ IF fail <= n
               THEN /\ pc' = "raised"
                    /\ tarf' = [tarf EXCEPT !.exc = "OSError"]
                    /\ self' = self
               ELSE IF tarf.exc # None
               THEN /\ pc' = "raised"
                    /\ tarf' = tarf
                    /\ self' = self
               ELSE /\ pc' = tarf.ret
                    /\ tarf' = NoTar
                    /\ self' = [self EXCEPT !.tarfiles = @ \o stored]
    /\ UNCHANGED <<policy, dryrun, rerun, loc, todo, listing, archives, verdicts, check, out, hist>>

\* else: print("WARNING! Files not compressed correctly: "+files), a str + list
TarWarn ==
    /\ pc = "warn"
    /\ pc' = "raised"
    /\ tarf' = [tarf EXCEPT !.exc = "TypeError"]
    /\ UNCHANGED <<policy, dryrun, rerun, self, loc, todo, listing, present, archives,
                   unlinked, verdicts, check, out, hist>>

----------------------------------------------------------------------------
(* report and the recursion of archive *)

\* "final" number of files of the report
FinalCount(d) == d.totalfiles - Len(d.tarfiles) + d.narchive

\* Directory.report: the two averages divide by the two file counts. The
\* numbers are recorded as computed, before pretty_size formats them.
Report ==
    /\ pc = "report"
    /\ IF self.totalfiles = 0 \/ FinalCount(self) = 0
       THEN /\ pc' = "raised"
            /\ tarf' = [tarf EXCEPT !.exc = "ZeroDivisionError"]
            /\ UNCHANGED <<out, todo>>
       ELSE /\ out' = Append(out, <<"report",
                        [ path |-> self.path,
                          orig |-> self.totalfiles,
                          final |-> FinalCount(self),
                          origsize |-> self.untarsize + self.tottarsize,
                          finalsize |-> self.untarsize + self.tarsize ]>>)
            /\ todo' = <<self.subdirs>> \o todo
            /\ pc' = "recurse"
            /\ tarf' = tarf
    /\ UNCHANGED <<policy, dryrun, rerun, self, loc, listing, present, archives,
                   unlinked, verdicts, check, hist>>

\* RecurseInto calling d.archive() with the default dryrun=False
RecurseIntoDefaultDryrun ==
    /\ pc = "recurse"
    /\ Head(todo) # <<>>
    /\ self' = NewDirectory(Head(Head(todo)), <<>>, policy)
    /\ todo' = <<Tail(Head(todo))>> \o Tail(todo)
    /\ loc' = NoLocals
    /\ pc' = "gather"
    /\ dryrun' = FALSE
    /\ UNCHANGED <<policy, rerun, tarf, listing, present, archives,
                   unlinked, verdicts, check, out, hist>>

\* for path in self.subdirs: d = Directory(path); d.archive(dryrun)
RecurseInto ==
    /\ pc = "recurse"
    /\ Head(todo) # <<>>
    /\ self' = NewDirectory(Head(Head(todo)), <<>>, policy)
    /\ todo' = <<Tail(Head(todo))>> \o Tail(todo)
    /\ loc' = NoLocals
    /\ pc' = "gather"
    /\ UNCHANGED <<policy, dryrun, rerun, tarf, listing, present, archives,
                   unlinked, verdicts, check, out, hist>>

\* the loop is exhausted: archive() returns to its caller
ArchiveReturn ==
    /\ pc = "recurse"
    /\ Head(todo) = <<>>
    /\ todo' = Tail(todo)
    /\ pc' = IF Tail(todo) = <<>> THEN "done" ELSE "recurse"
    /\ UNCHANGED <<policy, dryrun, rerun, self, loc, tarf, listing, present, archives,
                   unlinked, verdicts, check, out, hist>>

----------------------------------------------------------------------------
(* a second run on a directory an earlier run has processed (test_overwrite) *)

\* the pattern '*.tar*'
TarPattern == <<"*", ".", "t", "a", "r", "*">>

\* "for pattern in" over a str: its characters, one by one
Iterate(string) == [i \in 1..Len(string) |-> <<string[i]>>]

\* exclude=['*.tar*'], and exclude='*.tar*' whose characters are the patterns
ArchiveExcludes ==
    { <<TarPattern>>, Iterate(TarPattern) }

\* what a later run enumerates in the directory: the source files still there,
\* then the archive files the earlier run wrote
Existing(d) ==
    LET Left(e) == e.path \in present
    IN SelectSeq(listing, Left) \o
       [i \in 1..d.narchive |->
          [path |-> d.path \o <<ArchiveName(FileName(d, i))>>, kind |-> "archive", size |-> 0]]

\* t = Directory(dir, compress=..., exclude=..., minfilesize=...) and
\* t.archive() once the archive() of a first Directory on a directory without
\* subdirectories has returned
Rerun ==
    /\ pc = "done"
    /\ rerun.n = 1
    /\ ~dryrun
    /\ self.path = RootPath
    /\ self.include = <<>> /\ self.exclude = <<>>
    /\ \A i \in 1..Len(listing) : listing[i].kind = "file"
    /\ \E m \in MinFileSizes, e \in ArchiveExcludes :
         /\ m >= self.minfilesize
         /\ self' = NewDirectory(RootPath,
                        [k \in {"compress", "exclude", "minfilesize"} |->
                           CASE k = "compress" -> self.compress
                             [] k = "exclude" -> e
                             [] k = "minfilesize" -> m],
                        policy)
    /\ rerun' = [ n |-> 2,
                  queue |-> Existing(self),
                  archives |-> archives,
                  present |-> present,
                  files |-> {listing[i].path : i \in 1..Len(listing)},
                  minfilesize |-> self.minfilesize ]
    /\ listing' = <<>>
    /\ loc' = NoLocals
    /\ tarf' = NoTar
    /\ unlinked' = {}
    /\ verdicts' = {}
    /\ pc' = "gather"
    /\ UNCHANGED <<policy, dryrun, todo, present, archives, check, out, hist>>

\* a child of the later run: a file that was already there
GatherExisting ==
    /\ pc = "gather"
    /\ rerun.queue # <<>>
    /\ LET e == Head(rerun.queue)
       IN \E size \in Sizes :
            /\ e.kind = "file" => size = e.size
            /\ e.kind = "archive" => size > 0
            /\ listing' = Append(listing, [path |-> e.path, kind |-> "file", size |-> size])
            /\ ScanFile(e.path, size)
    /\ rerun' = [rerun EXCEPT !.queue = Tail(@)]
    /\ UNCHANGED <<policy, dryrun, todo, present, archives, unlinked, verdicts, check, out,
                   hist>>

----------------------------------------------------------------------------
(* verify called on its own, and the member test_verify appends *)

\* the member test_verify adds: name 'bogus', pax header md5 'bogus' (no
\* digest at all, 0 here: md5stream is never 0), bytes read from /dev/random
BogusMember(bytes) == [name |-> <<"bogus">>, md5 |-> 0, bytes |-> bytes]

\* verify(path) called outside of tar(), no run being under way
VerifyCall ==
    /\ pc = "done"
    /\ \E a \in archives :
         check' = [ archive |-> a,
                    result |-> verify(archives, a.name),
                    first |-> FirstMismatch(a.members, 1) ]
    /\ UNCHANGED <<policy, dryrun, rerun, self, loc, tarf, todo, pc, listing, present,
                   archives, unlinked, verdicts, out, hist>>

\* tarfile.open(path, mode='a') and addfile(extra, rando) on an archive that
\* verifies
AppendBogus ==
    /\ pc = "done"
    /\ \E a \in archives, v \in {0, 1} :
         /\ a.state = "closed"
         /\ a.members # <<>>
         /\ verify(archives, a.name) = "True"
         /\ archives' = (archives \ {a}) \cup
              {[a EXCEPT !.members = Append(@, BogusMember(Bytes(1, v)))]}
    /\ UNCHANGED <<policy, dryrun, rerun, self, loc, tarf, todo, pc, listing, present,
                   unlinked, verdicts, check, out, hist>>

\* a member as an archive can hold it: a tag that is the md5 of some bytes,
\* and bytes that are those or others of the same length
MemberChoices(i) ==
    { [name |-> NameOf(i), md5 |-> md5stream(Bytes(size, v)), bytes |-> Bytes(size, w)] :
      size \in Sizes, v \in {0, 1}, w \in {0, 1} }

\* sequences of at most n members, member i named NameOf(i)
RECURSIVE MemberSeqs(_)
MemberSeqs(n) ==
    IF n = 0 THEN { <<>> }
    ELSE MemberSeqs(n - 1) \cup
         { Append(ms, m) : ms \in {x \in MemberSeqs(n - 1) : Len(x) = n - 1},
                           m \in MemberChoices(n) }

\* archive files as a build can leave them: complete, without its end
\* blocks, or ending inside its last member
ArchiveInputs ==
    { [name |-> FileName(NewDirectory(RootPath, <<>>, pol), 1), members |-> ms, state |-> st] :
      pol \in Policies, ms \in MemberSeqs(MaxMembers), st \in {"closed", "open", "truncated"} }

\* an archive file on disk and no run under way
InitVerify ==
    /\ policy \in Policies
    /\ dryrun = FALSE
    /\ self = NewDirectory(RootPath, <<>>, policy)
    /\ loc = NoLocals
    /\ tarf = NoTar
    /\ todo = <<>>
    /\ pc = "done"
    /\ listing = <<>>
    /\ present = {}
    /\ \E a \in ArchiveInputs : archives = {a}
    /\ unlinked = {}
    /\ verdicts = {}
    /\ check = NoCheck
    /\ out = <<>>
    /\ rerun = FirstRun
    /\ hist = <<>>

NextVerify ==
    \/ VerifyCall
    \/ AppendBogus

SpecVerify == InitVerify /\ [][NextVerify]_vars

----------------------------------------------------------------------------
(* set_policy and the constructor, called one after the other (test_policy) *)

\* the literal the module binds policy to
PolicyLiteral ==
    [k \in PolicyKeys |->
        CASE k = "compress" -> "gz"
          [] k = "minfilesize" -> MaxSize
          [] k = "maxarchivesize" -> MaxSize + 1]

\* the values a key of the policy can be set to
ValuesOf(key) ==
    CASE key = "compress" -> Compressions
      [] key = "minfilesize" -> MinFileSizes
      [] key = "maxarchivesize" -> MaxArchiveSizes

\* set_policy(key=value): policy.update
SetPolicy ==
    /\ pc = "idle"
    /\ \E key \in PolicyKeys : \E value \in ValuesOf(key) :
         policy' = [policy EXCEPT ![key] = value]
    /\ UNCHANGED <<dryrun, self, loc, tarf, todo, pc, listing, present, archives,
                   unlinked, verdicts, check, out, rerun, hist>>

\* t = Directory(path, **kwargs)
Construct ==
    /\ pc = "idle"
    /\ \E kwargs \in KwargsChoices :
         /\ self' = NewDirectory(RootPath, kwargs, policy)
         /\ hist' = <<[kwargs |-> kwargs, defaults |-> policy]>>
    /\ UNCHANGED <<policy, dryrun, loc, tarf, todo, pc, listing, present, archives,
                   unlinked, verdicts, check, out, rerun>>

\* the module as imported and a first Directory
InitPolicy ==
    /\ policy = PolicyLiteral
    /\ dryrun = FALSE
    /\ \E kwargs \in KwargsChoices :
         /\ self = NewDirectory(RootPath, kwargs, policy)
         /\ hist = <<[kwargs |-> kwargs, defaults |-> policy]>>
    /\ loc = NoLocals
    /\ tarf = NoTar
    /\ todo = <<>>
    /\ pc = "idle"
    /\ listing = <<>>
    /\ present = {}
    /\ archives = {}
    /\ unlinked = {}
    /\ verdicts = {}
    /\ check = NoCheck
    /\ out = <<>>
    /\ rerun = FirstRun

NextPolicy ==
    \/ SetPolicy
    \/ Construct

SpecPolicy == InitPolicy /\ [][NextPolicy]_vars

Next ==
    \/ GatherDir
    \/ GatherFile
    \/ GatherEnd
    \/ TarEmpty
    \/ TarDry
    \/ TarBuild
    \/ TarVerify
    \/ TarUnlink
    \/ TarWarn
    \/ Report
    \/ RecurseInto
    \/ ArchiveReturn

Spec == Init /\ [][Next]_vars

\* archive() on a first Directory, the call that constructed it being kept
InitCall ==
    /\ policy \in Policies
    /\ dryrun \in BOOLEAN
    /\ \E kwargs \in KwargsChoices :
         /\ self = NewDirectory(RootPath, kwargs, policy)
         /\ hist = <<[kwargs |-> kwargs, defaults |-> policy]>>
    /\ rerun = FirstRun
    /\ loc = NoLocals
    /\ tarf = NoTar
    /\ todo = <<>>
    /\ pc = "gather"
    /\ listing = <<>>
    /\ present = {}
    /\ archives = {}
    /\ unlinked = {}
    /\ verdicts = {}
    /\ check = NoCheck
    /\ out = <<>>

NextCall ==
    \/ GatherDir
    \/ GatherFile
    \/ GatherEnd
    \/ TarEmpty
    \/ TarDry
    \/ TarBuild
    \/ TarVerify
    \/ TarUnlink
    \/ TarWarn
    \/ Report
    \/ RecurseInto
    \/ ArchiveReturn

SpecCall == InitCall /\ [][NextCall]_vars

NextRerun ==
    \/ GatherDir
    \/ GatherFile
    \/ GatherEnd
    \/ TarEmpty
    \/ TarDry
    \/ TarBuild
    \/ TarVerify
    \/ TarUnlink
    \/ TarWarn
    \/ Report
    \/ RecurseInto
    \/ ArchiveReturn
    \/ Rerun
    \/ GatherExisting

SpecRerun == Init /\ [][NextRerun]_vars

----------------------------------------------------------------------------
(* Properties *)

Parent(path) == SubSeq(path, 1, Len(path) - 1)

IsFileOf(e, dir) == e.kind = "file" /\ Parent(e.path) = dir

\* the regular files enumerated in a directory, in enumeration order
FilesIn(dir) ==
    LET Test(e) == IsFileOf(e, dir) IN SelectSeq(listing, Test)

Paths(entries) == [i \in 1..Len(entries) |-> entries[i].path]

RECURSIVE SumSizes(_)
SumSizes(paths) ==
    IF paths = <<>> THEN 0 ELSE SizeOf(Head(paths)) + SumSizes(Tail(paths))

Range(seq) == {seq[i] : i \in 1..Len(seq)}

\* the store rule as the specification states it
Rule(d, path) ==
    \/ /\ SizeOf(path) < d.minfilesize
       /\ \A i \in 1..Len(d.exclude) : ~Glob(d.exclude[i], Basename(path))
    \/ \E i \in 1..Len(d.include) : Glob(d.include[i], Basename(path))

\* the files of a directory the rule stores, in enumeration order
ExpectedStored(d) ==
    LET Test(e) == IsFileOf(e, d.path) /\ Rule(d, e.path)
    IN Paths(SelectSeq(listing, Test))

\* C1: every source file tar() has unlinked was unlinked for an archive on
\* which verify() had returned True in this run.
VerifyGatesDelete ==
    \A u \in unlinked : <<u.archive, "True">> \in verdicts

VerifyGatesDeleteWitness ==
    /\ Cardinality(unlinked) >= 2
    /\ \E u \in unlinked : <<u.archive, "True">> \in verdicts

\* C2: no source file is unlinked for a batch whose archive build failed:
\* every unlinked file belongs to a batch whose archive was written completely.
NoDeleteAfterFailedBuild ==
    \A u \in unlinked : \E a \in archives : a.name = u.archive /\ a.state = "closed"

\* C3: the stored members of every batch handed to tar() sum to at most
\* maxarchivesize, unless the batch stores exactly one file.
PackingBound ==
    pc = "tar" =>
        \/ SumSizes(Stored) <= self.maxarchivesize
        \/ Len(Stored) = 1

\* C4: when gatherfiles has completed, totalfiles counts the files listed in
\* the directory, each of them is either in self.tarfiles or left alone, and
\* tottarsize and untarsize are the sizes of the two groups, adding up to the
\* size of the whole listing.
PartitionComplete ==
    pc = "report" =>
        LET all == Paths(FilesIn(self.path))
            IsLeft(q) == q \notin Range(self.tarfiles)
            left == SelectSeq(all, IsLeft)
        IN /\ self.totalfiles = Len(all)
           /\ Range(self.tarfiles) \subseteq Range(all)
           /\ Len(self.tarfiles) + Len(left) = self.totalfiles
           /\ self.tottarsize = SumSizes(self.tarfiles)
           /\ self.untarsize = SumSizes(left)
           /\ self.tottarsize + self.untarsize = SumSizes(all)

PartitionCompleteWitness ==
    /\ pc = "report"
    /\ ~dryrun
    /\ Len(self.tarfiles) >= 1
    /\ self.untarsize > 0
    /\ self.totalfiles = MaxEntries

\* the store mask agrees with the rule on every file of the list
MaskFollowsRule(files, mask) ==
    /\ Len(mask) = Len(files)
    /\ \A i \in 1..Len(files) :
         /\ mask[i] = Rule(self, files[i])
         /\ (MatchAny(self.include, Basename(files[i]))
             /\ MatchAny(self.exclude, Basename(files[i]))) => mask[i]
         /\ (SizeOf(files[i]) = self.minfilesize
             /\ ~MatchAny(self.include, Basename(files[i]))) => ~mask[i]

\* C5: the store decision taken for every file is (size < minfilesize and no
\* exclude pattern matches) or some include pattern matches; a file matching
\* both lists is stored, a file of exactly minfilesize with no include match
\* is left alone.
StoreRule ==
    /\ MaskFollowsRule(loc.tarfiles, loc.store)
    /\ MaskFollowsRule(tarf.files, tarf.storemask)

StoreRuleWitness ==
    \E i \in 1..Len(loc.tarfiles) :
        /\ loc.store[i]
        /\ MatchAny(self.include, Basename(loc.tarfiles[i]))
        /\ MatchAny(self.exclude, Basename(loc.tarfiles[i]))
        /\ SizeOf(loc.tarfiles[i]) >= self.minfilesize

\* C6: a dry run unlinks nothing and writes no archive file, and when
\* gatherfiles has completed, dry or not, self.tarfiles is the list of the
\* files the store rule selects from the listing.
DryRunFrame ==
    /\ dryrun => /\ archives = {}
                 /\ unlinked = {}
                 /\ present = {listing[i].path : i \in {j \in 1..Len(listing) :
                                                        listing[j].kind = "file"}}
    /\ pc = "report" => self.tarfiles = ExpectedStored(self)

DryRunFrameWitness ==
    /\ dryrun
    /\ pc = "report"
    /\ self.narchive >= 2
    /\ Len(self.tarfiles) >= 2

\* C7: when the build has completed and no stored file was rewritten
\* meanwhile, verify() of the archive returns True and the archive holds one
\* member per stored file.
RoundTrip ==
    (pc = "verify" /\ tarf.exc = None /\ tarf.rw = 0) =>
        /\ verify(archives, tarf.filename) = "True"
        /\ \E a \in archives : /\ a.name = tarf.filename
                               /\ Len(a.members) = Len(Stored)
                               /\ \A i \in 1..Len(Stored) :
                                    a.members[i].name = Basename(Stored[i])

RoundTripWitness ==
    /\ pc = "verify"
    /\ tarf.exc = None
    /\ tarf.rw = 0
    /\ Len(Stored) >= 2
    /\ SumSizes(Stored) >= 2

Matches(m) == md5stream(m.bytes) = m.md5

Readable(a) ==
    ~(a.state = "truncated" \/ (a.state = "open" /\ a.members = <<>>))

VerifyResultExact ==
    check.result # None =>
        LET a == check.archive
            bad == {i \in 1..Len(a.members) : ~Matches(a.members[i])}
        IN /\ check.result = "True" <=> (Readable(a) /\ bad = {})
           /\ check.result = "False" <=> (Readable(a) /\ bad # {})
           /\ check.result = "False" =>
                /\ check.first \in bad
                /\ \A i \in bad : check.first <= i
           /\ (Readable(a) /\ \E i \in 1..Len(a.members) : a.members[i].md5 = 0)
                => check.result = "False"

\* C8: verify() returns True exactly when every member's recomputed md5
\* equals its tag, reports the first mismatching member, returns False once a
\* member with a bogus tag has been appended, and leaves the archive as it was.
VerifyExact ==
    /\ []VerifyResultExact
    /\ [][VerifyCall => archives' = archives]_vars

VerifyExactWitness ==
    /\ check.result = "False"
    /\ Len(check.archive.members) >= 2
    /\ check.first = Len(check.archive.members)
    /\ check.archive.members[check.first].name = <<"bogus">>

\* C9: when verify() has returned False for the archive just built, no file
\* has been unlinked for that archive, the stored files of the batch are
\* still there, and the archive file is still on disk.
FailedVerifyKeepsAll ==
    /\ \A u \in unlinked : <<u.archive, "False">> \notin verdicts
    /\ \A v \in verdicts : v[2] = "False" => \E a \in archives : a.name = v[1]
    /\ <<tarf.filename, "False">> \in verdicts => Range(Stored) \subseteq present

FailedVerifyKeepsAllWitness ==
    /\ <<tarf.filename, "False">> \in verdicts
    /\ pc = "raised"
    /\ Len(Stored) >= 2

\* C10: a verify() that returned False does not end the run: no exception
\* leaves tar() for it.
VerifyFailureNotFatal ==
    \A v \in verdicts : v[2] = "False" => pc # "raised"

\* C11: a second archive() on a directory already processed, with the same
\* minfilesize and the archives excluded by pattern, has no effect: the
\* archives on disk and the source files are those the first run left.
\* Refuted: the second run reopens archive number 1 for writing.
RerunNoEffect ==
    (rerun.n = 2 /\ pc = "done" /\ self.minfilesize = rerun.minfilesize
     /\ \A a \in rerun.archives : a.members # <<>>)
        => (archives = rerun.archives /\ present = rerun.present)

\* the members' names of the archives of a disk
MemberNames(disk) ==
    UNION {{a.members[i].name : i \in 1..Len(a.members)} : a \in disk}

\* C12: a later run that stores additional files adds a new archive next to
\* the earlier ones: the count grows, no earlier archive is overwritten, and
\* every deleted file remains a member of some archive.
\* Refuted: the later run numbers its archives from 1 again.
RerunAddsArchive ==
    (rerun.n = 2 /\ pc = "done" /\ self.tarfiles # <<>>
     /\ \A a \in rerun.archives : a.members # <<>>)
        => /\ rerun.archives \subseteq archives
           /\ Cardinality(archives) = Cardinality(rerun.archives) + self.narchive
           /\ \A q \in rerun.files \ present : Basename(q) \in MemberNames(archives)

\* the glob archive_????????????_???.tar, with .gz appended under compression
NamePattern(comp) ==
    <<"a", "r", "c", "h", "i", "v", "e", "_">> \o [i \in 1..12 |-> "?"]
    \o <<"_", "?", "?", "?", ".", "t", "a", "r">>
    \o (IF comp = "gz" THEN <<".", "g", "z">> ELSE <<>>)

\* C13: every archive file is named archive_<12 hex>_<3 digits>.tar, or
\* ....tar.gz when compress = 'gz', the digest being that of the directory
\* path and the sequence number the batch number.
\* Refuted: under compression the name ends in ".tar:gz".
NameFormat ==
    pc = "verify" =>
        /\ Glob(NamePattern(self.compress), ArchiveName(tarf.filename))
        /\ tarf.filename.hash = blake2b(Str(self.path))
        /\ tarf.filename.seq = self.narchive

\* C14: archive() on a directory with zero regular files never raises from
\* report(): a ZeroDivisionError is never raised for a Directory that has
\* counted no file.
\* Refuted: report() divides by self.totalfiles.
ReportNeverRaises ==
    (pc = "raised" /\ tarf.exc = "ZeroDivisionError") => self.totalfiles # 0

\* C15: a failure while one batch is written is contained: when the build of
\* an archive has failed (the file could not be created, or was left
\* incomplete) and the run has ended with the exception, no subdirectory of
\* this directory or of a directory above it is left unprocessed.
\* Refuted: nothing catches the exception, the run ends there.
FailureContained ==
    (/\ pc = "raised"
     /\ tarf.exc \in {"OSError", "ReadError"}
     /\ \A a \in OnDisk(archives, tarf.filename) : a.state # "closed")
        => (self.subdirs = <<>> /\ \A i \in 1..Len(todo) : todo[i] = <<>>)

\* C16: if unlinking one verified source file of a batch fails, the remaining
\* stored files of the batch are still unlinked: at most the one file is
\* left on disk, and the archive is kept.
\* Refuted: the exception leaves the loop, the files after it stay.
UnlinkFailureLocal ==
    (/\ pc = "raised"
     /\ tarf.exc = "OSError"
     /\ <<tarf.filename, "True">> \in verdicts
     /\ \E a \in OnDisk(archives, tarf.filename) : a.state = "closed")
        => /\ Cardinality(Range(Stored) \cap present) <= 1
           /\ OnDisk(archives, tarf.filename) # {}

\* C19: an archive is produced, and narchive incremented, only for a batch
\* with a stored member: when gatherfiles returns for a directory where every
\* file was left alone, narchive is 0 and the directory holds no archive.
\* Refuted: tar() returns early on len(files) == 0, and files holds the
\* left-alone files as well.
NoArchiveWithoutStored ==
    (pc = "report" /\ rerun.n = 1 /\ ExpectedStored(self) = <<>>)
        => /\ self.narchive = 0
           /\ \A a \in archives : a.name.dir # self.path

\* the value a constructor call gives a key: the keyword argument if the key
\* was passed, else the default at the time of the call
Effective(call, key) ==
    IF key \in DOMAIN call.kwargs THEN call.kwargs[key] ELSE call.defaults[key]

\* the constructor call with every policy key passed explicitly
Explicit(call) ==
    [k \in PolicyKeys \cup DOMAIN call.kwargs |-> Effective(call, k)]

\* C17: a Directory has, for every policy key, the keyword argument it was
\* constructed with if the key was passed and else the default in force at
\* its construction; it is the Directory that passing those values
\* explicitly gives under any defaults; later set_policy calls leave it as it
\* is.
PolicyDefaults ==
    \A i \in 1..Len(hist) :
       /\ self.compress = Effective(hist[i], "compress")
       /\ self.minfilesize = Effective(hist[i], "minfilesize")
       /\ self.maxarchivesize = Effective(hist[i], "maxarchivesize")
       /\ \A pol \in Policies : self = NewDirectory(RootPath, Explicit(hist[i]), pol)

\* a default set by set_policy was used, a keyword argument has overridden
\* another default, and set_policy has changed the first default since
PolicyDefaultsWitness ==
    /\ Len(hist) = 1
    /\ "minfilesize" \notin DOMAIN hist[1].kwargs
    /\ hist[1].defaults["minfilesize"] # PolicyLiteral["minfilesize"]
    /\ self.minfilesize = hist[1].defaults["minfilesize"]
    /\ "compress" \in DOMAIN hist[1].kwargs
    /\ self.compress # hist[1].defaults["compress"]
    /\ policy["minfilesize"] # self.minfilesize

\* the names of the members of the archives 1..n of a directory, in the order
\* of the sequence numbers
RECURSIVE ArchivedNames(_, _)
ArchivedNames(d, n) ==
    IF n = 0 THEN <<>>
    ELSE LET a == CHOOSE x \in OnDisk(archives, FileName(d, n)) : TRUE
         IN ArchivedNames(d, n - 1) \o [i \in 1..Len(a.members) |-> a.members[i].name]

\* C18: packing never drops, duplicates or splits a file: at every point of
\* the scan the stored files of the batches handed to tar() so far, in the
\* order of the calls, followed by the stored files of the batch being
\* filled, are the files the store rule selects among those enumerated, in
\* enumeration order; when gatherfiles returns self.tarfiles is that list,
\* and in a real run the members of archives 1..narchive are those files.
PackingExact ==
    /\ pc = "gather" =>
          self.tarfiles \o compress(loc.tarfiles, loc.store) = ExpectedStored(self)
    /\ pc \in {"tar", "verify", "unlink", "warn"} =>
          /\ self.tarfiles \o Stored = ExpectedStored(self)
          /\ compress(loc.tarfiles, loc.store) = <<>>
    /\ pc = "report" =>
          /\ self.tarfiles = ExpectedStored(self)
          /\ ~dryrun =>
                ArchivedNames(self, self.narchive)
                    = [i \in 1..Len(self.tarfiles) |-> Basename(self.tarfiles[i])]

\* a real run has returned from gatherfiles with two archives built, two
\* files stored, and a file left alone
PackingExactWitness ==
    /\ pc = "report"
    /\ ~dryrun
    /\ self.narchive >= 2
    /\ Len(self.tarfiles) >= 2
    /\ self.totalfiles > Len(self.tarfiles)

\* C20: within one directory the scan runs to completion before any archive
\* is built or any source file deleted: while children are still being
\* enumerated the directory holds no archive and none of its files has been
\* unlinked; archives are then built in the order of their numbers, the
\* earlier ones verified and their files deleted before the next is built.
\* Refuted: gatherfiles calls tar() inside the loop over the children.
ScanBeforeBuild ==
    /\ pc = "gather" =>
          /\ \A a \in archives : a.name.dir # self.path
          /\ \A u \in unlinked : Parent(u.path) # self.path
    /\ pc = "tar" =>
          \A a \in archives : a.name.dir = self.path =>
             /\ a.name.seq <= self.narchive
             /\ <<a.name, "True">> \in verdicts

\* the report of that directory has been printed
Reported(dir) ==
    \E i \in 1..Len(out) : out[i][1] = "report" /\ out[i][2].path = dir

\* nothing of a subdirectory is archived or deleted, and no Directory is at
\* work on a subdirectory, before the report of its parent
ParentLevelFirst ==
    /\ \A a \in archives : Depth(a.name.dir) >= 1 => Reported(Parent(a.name.dir))
    /\ \A u \in unlinked : Depth(Parent(u.path)) >= 1 => Reported(Parent(Parent(u.path)))
    /\ Depth(self.path) >= 1 => Reported(Parent(self.path))

\* C21: subdirectories are processed strictly after the current level: no
\* file of a subdirectory is archived or deleted before the report of the
\* parent directory, which follows the parent's last batch; and the step into
\* a subdirectory keeps the dryrun flag of the parent.
SubdirsAfterLevel ==
    /\ []ParentLevelFirst
    /\ [][RecurseInto => dryrun' = dryrun]_vars

\* a file of a subdirectory has been archived and deleted
SubdirsAfterLevelWitness ==
    /\ \E a \in archives : Depth(a.name.dir) >= 1 /\ a.members # <<>>
    /\ \E u \in unlinked : Depth(Parent(u.path)) >= 1

\* the pattern list a constructor call gives include or exclude
PatternsOf(call, key) ==
    IF key \in DOMAIN call.kwargs THEN call.kwargs[key] ELSE <<>>

\* C22: every Directory of the run, those made by the recursion included, has
\* the policy values of the Directory archive() was first called on: the
\* keyword arguments of that constructor call, the defaults for the rest.
\* Refuted: the recursion constructs Directory(path) without arguments.
RecursionKeepsPolicy ==
    \A i \in 1..Len(hist) :
       /\ self.minfilesize = Effective(hist[i], "minfilesize")
       /\ self.maxarchivesize = Effective(hist[i], "maxarchivesize")
       /\ self.compress = Effective(hist[i], "compress")
       /\ self.include = PatternsOf(hist[i], "include")
       /\ self.exclude = PatternsOf(hist[i], "exclude")

\* the path under which a later run enumerates an archive file
PathOf(a) == a.name.dir \o <<ArchiveName(a.name)>>

\* C23: a left-alone file is never added to an archive and never deleted or
\* modified by a run: every file the Directory at work has enumerated and the
\* store rule leaves alone is a member of no archive of the directory, is
\* still on disk and, if it is an archive file of an earlier run, still has
\* the content that run gave it.
\* Refuted: a later run overwrites the archive files it leaves alone.
LeftAloneUntouched ==
    \A i \in 1..Len(listing) :
       LET e == listing[i]
       IN (IsFileOf(e, self.path) /\ ~Rule(self, e.path)) =>
             /\ \A a \in archives : a.name.dir = self.path =>
                   \A j \in 1..Len(a.members) : a.members[j].name # Basename(e.path)
             /\ (\A a \in rerun.archives : PathOf(a) # e.path) => e.path \in present
             /\ \A a \in rerun.archives : PathOf(a) = e.path => a \in archives

\* C24: the md5 tag of every archive member is the digest of the bytes the
\* archive holds for that member, also when the source file was rewritten
\* between the computation of the tag and the copy.
\* Refuted: addmeta reads the file for the tag before tarfile copies it.
TagMatchesWritten ==
    \A a \in archives :
       \A i \in 1..Len(a.members) : md5stream(a.members[i].bytes) = a.members[i].md5

\* the counters gatherfiles leaves in a real run in which every verify
\* succeeds, as far as the listing determines them: the stored bytes count
\* once in tottarsize and once in tarsize
RealCounters(d) ==
    [ totalfiles |-> Len(FilesIn(d.path)),
      tottarsize |-> SumSizes(ExpectedStored(d)),
      untarsize |-> SumSizes(Paths(FilesIn(d.path))) - SumSizes(ExpectedStored(d)),
      tarsize |-> SumSizes(ExpectedStored(d)) ]

\* the same counters of a Directory
Counters(d) ==
    [ totalfiles |-> d.totalfiles,
      tottarsize |-> d.tottarsize,
      untarsize |-> d.untarsize,
      tarsize |-> d.tarsize ]

\* C25: a dry run ends with the counters of a real run on the same
\* directory and policy in which every verify succeeds.
\* Refuted: the dry branch of tar() adds tottarsize to tarsize once more.
DryCountersAsReal ==
    pc = "report" => Counters(self) = RealCounters(self)

\* the regular files a directory holds: source files and archive files
FilesOnDisk(dir) ==
    Cardinality({q \in present : Parent(q) = dir})
    + Cardinality({a \in archives : a.name.dir = dir})

\* C26: after a non-dry run on a directory in which every verify succeeds
\* the final file count of report() is the number of regular files the
\* directory holds, the left-alone files plus the archives.
\* Refuted: a later run counts an archive it then overwrites twice.
FinalCountOnDisk ==
    (pc = "report" /\ ~dryrun) => FinalCount(self) = FilesOnDisk(self.path)

\* C27: exclude passed as the string '*.tar*' acts as the list ['*.tar*']:
\* every file the scan has seen got the store decision the list would give.
\* Refuted: the loop over a string takes each character as a pattern, and
\* '*' matches every name.
StringExcludeAsList ==
    (rerun.n = 2 /\ self.exclude = Iterate(TarPattern)) =>
        \A i \in 1..Len(loc.tarfiles) :
           loc.store[i] = StoreDecision([self EXCEPT !.exclude = <<TarPattern>>],
                                        Basename(loc.tarfiles[i]),
                                        SizeOf(loc.tarfiles[i]))

====
